---- MODULE Spec2Model ----
(***************************************************************************)
(* A model of the Bark notification client (src/python/bark_sdk.py).       *)
(*                                                                         *)
(* The client object holds key, server_url and base_url.  send and         *)
(* send_post are synchronous handlers: each is one action that validates   *)
(* its arguments, builds the request, issues it through the requests       *)
(* library (the environment: it either raises a RequestException or        *)
(* returns a response with a status code and a text) and interprets the    *)
(* response.                                                               *)
(*                                                                         *)
(* Python values:                                                          *)
(*   - Optional[T] is a set: None is {} and a value x is {x};              *)
(*   - the strings the code takes apart or concatenates (key, server_url,  *)
(*     title, subtitle, body, URLs) are sequences of one-character         *)
(*     strings; strings that are only compared or passed through (level,   *)
(*     url, group, ..., response texts) are TLA+ strings;                  *)
(*   - an f-string message is the sequence of its parts;                   *)
(*   - a dict is a function from its keys.                                 *)
(***************************************************************************)
EXTENDS Integers, Sequences, FiniteSets, TLC

VARIABLES
    key,          \* self.key
    server_url,   \* self.server_url
    base_url,     \* self.base_url
    ctor,         \* the arguments the client was constructed with
    calls,        \* number of send / send_post invocations so far
    validated,    \* number of those that passed the argument validation
    nrequests,    \* number of requests.get / requests.post invocations so far
    last          \* the last invocation: arguments, request, environment, outcome

vars == <<key, server_url, base_url, ctor, calls, validated, nrequests, last>>

----------------------------------------------------------------------------
(* Bounds of the model *)

\* Longest title, subtitle or body drawn in SpecEndpoint.
MaxLen == 2

\* Number of send / send_post invocations on one client in Spec.
MaxCalls == 2

----------------------------------------------------------------------------
(* Python values *)

None == {}
Some(x) == {x}
Val(o) == CHOOSE x \in o : TRUE

\* bool(o) of an Optional[str] held as a character sequence
TruthyText(o) == o # None /\ Val(o) # <<>>

\* bool(o) of an Optional[str] held as a TLA+ string
TruthyStr(o) == o # None /\ Val(o) # ""

\* bool(o) of an Optional[bool]
TruthyBool(o) == o = Some(TRUE)

\* The characters of the texts the model draws: an unreserved character, the
\* path separator and a reserved character that is not the separator.
Alphabet == {"A", "/", " "}

RECURSIVE TextsOfLen(_)
TextsOfLen(n) ==
    IF n = 0 THEN {<<>>}
    ELSE {Append(t, c) : t \in TextsOfLen(n - 1), c \in Alphabet}

Texts == UNION {TextsOfLen(n) : n \in 0..MaxLen}

----------------------------------------------------------------------------
(* urllib.parse.quote(string), with its default safe="/" *)

\* Characters quote never encodes (letters, digits and "_.-~"): the ones that
\* occur in the model's strings.
ALWAYS_SAFE == {"A", "B", "E", "K", "_", ".", "-", "~"}

\* The percent-encoding of a character's UTF-8 byte.
PercentEncode(c) ==
    CASE c = " " -> <<"%", "2", "0">>
      [] c = "/" -> <<"%", "2", "F">>
      [] c = "%" -> <<"%", "2", "5">>
      [] c = "?" -> <<"%", "3", "F">>

\* One character of quote's output: kept when it is always safe or in safe.
QuoteChar(c) == IF c \in ALWAYS_SAFE \cup {"/"} THEN <<c>> ELSE PercentEncode(c)

RECURSIVE quote(_)
quote(s) == IF s = <<>> THEN <<>> ELSE QuoteChar(Head(s)) \o quote(Tail(s))

----------------------------------------------------------------------------
(* Exceptions and results *)

\* The classes a handler of ValueError or TypeError catches.
ValueOrTypeErrors == {"ValueError", "TypeError", "JSONDecodeError", "InvalidURL"}

\* The subclasses of requests.RequestException the environment raises.
RequestExceptions == {"ConnectionError", "Timeout", "InvalidURL"}

Raise(exc, message, status_code, response) ==
    [kind |-> "raise", exc |-> exc, message |-> message,
     status_code |-> status_code, response |-> response, value |-> None]

Return(v) ==
    [kind |-> "return", exc |-> "", message |-> <<>>,
     status_code |-> None, response |-> None, value |-> Some(v)]

BarkClientException(message) == Raise("BarkClientException", message, None, None)

BarkNetworkException(message) == Raise("BarkNetworkException", message, None, None)

----------------------------------------------------------------------------
(* JSON values, as response.json() returns them *)

\* A scalar or an array: t is the JSON type, s is Python's str() of the value.
JScalar(t, s) == [t |-> t, s |-> s, fields |-> <<>>]

\* A dict: fields maps its keys to scalars.
JObject(f) == [t |-> "object", s |-> "", fields |-> f]

JNumber(s) == JScalar("number", s)
JString(s) == JScalar("string", s)
PyNone == JScalar("null", "None")

\* d.get(k, default) of a dict
dict_get(d, k, default) == IF k \in DOMAIN d.fields THEN d.fields[k] ELSE default

\* type(j).__name__
PyType(j) ==
    CASE j.t = "object" -> "dict"
      [] j.t = "array" -> "list"
      [] j.t = "number" -> "int"
      [] j.t = "string" -> "str"
      [] j.t = "null" -> "NoneType"

\* The response texts the environment sends.
ResponseTexts ==
    { "{\"code\":200,\"message\":\"ok\"}",
      "{\"code\":400,\"message\":\"bad key\"}",
      "{\"code\":500}",
      "{\"message\":\"hi\"}",
      "{\"code\":\"200\"}",
      "[]",
      "null",
      "200",
      "{\"code\":<an integer of 5000 digits>}",
      "<html>Bad Gateway</html>",
      "" }

\* json.loads(text): ok is FALSE where it raises, and exc is what it raises.
\* int_limit is whether the interpreter limits the digits of an integer it
\* converts (sys.set_int_max_str_digits: Python 3.11 and the patched releases of
\* 3.7 to 3.10); int() then raises ValueError, which is no JSONDecodeError.
json_loads(text, int_limit) ==
    CASE text = "{\"code\":200,\"message\":\"ok\"}" ->
            [ok |-> TRUE, exc |-> "",
             value |-> JObject([code |-> JNumber("200"), message |-> JString("ok")])]
      [] text = "{\"code\":400,\"message\":\"bad key\"}" ->
            [ok |-> TRUE, exc |-> "",
             value |-> JObject([code |-> JNumber("400"), message |-> JString("bad key")])]
      [] text = "{\"code\":500}" ->
            [ok |-> TRUE, exc |-> "", value |-> JObject([code |-> JNumber("500")])]
      [] text = "{\"message\":\"hi\"}" ->
            [ok |-> TRUE, exc |-> "", value |-> JObject([message |-> JString("hi")])]
      [] text = "{\"code\":\"200\"}" ->
            [ok |-> TRUE, exc |-> "", value |-> JObject([code |-> JString("200")])]
      [] text = "[]" -> [ok |-> TRUE, exc |-> "", value |-> JScalar("array", "[]")]
      [] text = "null" -> [ok |-> TRUE, exc |-> "", value |-> PyNone]
      [] text = "200" -> [ok |-> TRUE, exc |-> "", value |-> JNumber("200")]
      [] text = "{\"code\":<an integer of 5000 digits>}" ->
            IF int_limit
            THEN [ok |-> FALSE, exc |-> "ValueError", value |-> PyNone]
            ELSE [ok |-> TRUE, exc |-> "",
                  value |-> JObject([code |-> JNumber("<an integer of 5000 digits>")])]
      [] OTHER -> [ok |-> FALSE, exc |-> "JSONDecodeError", value |-> PyNone]

----------------------------------------------------------------------------
(* The environment: what requests.get / requests.post does *)

HTTP_OK == 200

TIMEOUT == 10

Statuses == {HTTP_OK, 500}

\* str(e) of the RequestException raised
TransportMessage(exc) ==
    CASE exc = "ConnectionError" -> "Connection refused"
      [] exc = "Timeout" -> "Read timed out"
      [] exc = "InvalidURL" -> "Invalid URL"

Envs ==
    {[kind |-> "raise", exc |-> e, msg |-> TransportMessage(e),
      status_code |-> 0, text |-> "", int_limit |-> FALSE] : e \in RequestExceptions}
    \cup
    {[kind |-> "response", exc |-> "", msg |-> "",
      status_code |-> st, text |-> tx, int_limit |-> FALSE] :
        st \in Statuses, tx \in ResponseTexts}
    \cup
    {[kind |-> "response", exc |-> "", msg |-> "",
      status_code |-> st, text |-> "{\"code\":<an integer of 5000 digits>}",
      int_limit |-> TRUE] : st \in Statuses}

----------------------------------------------------------------------------
(* BarkNotification *)

DEFAULT_SERVER ==
    <<"h", "t", "t", "p", "s", ":", "/", "/",
      "a", "p", "i", ".", "d", "a", "y", ".", "a", "p", "p">>

LEVELS == {"active", "timeSensitive", "passive", "critical"}

_handle_response(response) ==
    IF response.status_code # HTTP_OK
    THEN Raise("BarkServerException",
               <<"Server returned error: ", response.text>>,
               Some(response.status_code), None)
    ELSE LET parsed == json_loads(response.text, response.int_limit)
             json_response == parsed.value
         IN  IF ~parsed.ok /\ parsed.exc = "JSONDecodeError"
             THEN \* caught by except json.JSONDecodeError
                  Raise("BarkServerException",
                        <<"Invalid JSON response: ", response.text>>,
                        Some(response.status_code), None)
             ELSE IF ~parsed.ok
             THEN \* any other exception of response.json() is not caught here
                  Raise(parsed.exc,
                        <<"Exceeds the limit (4300 digits) for integer string conversion">>,
                        None, None)
             ELSE IF json_response.t # "object"
             THEN \* json_response.get: no handler catches it
                  Raise("AttributeError",
                        <<"'", PyType(json_response),
                          "' object has no attribute 'get'">>, None, None)
             ELSE IF dict_get(json_response, "code", PyNone) # JNumber("200")
             THEN Raise("BarkServerException",
                        <<"API error: ",
                          dict_get(json_response, "message",
                                   JString("Unknown error")).s>>,
                        Some(response.status_code), Some(json_response))
             ELSE Return(json_response)

\* _build_endpoint with title and subtitle exchanged.
_build_endpoint_swapped(self_base_url, body, title, subtitle) ==
    IF TruthyText(title) /\ TruthyText(subtitle)
    THEN self_base_url \o <<"/">> \o quote(Val(subtitle)) \o <<"/">>
             \o quote(Val(title)) \o <<"/">> \o quote(body)
    ELSE IF TruthyText(title)
    THEN self_base_url \o <<"/">> \o quote(Val(title)) \o <<"/">> \o quote(body)
    ELSE self_base_url \o <<"/">> \o quote(body)

_build_endpoint(self_base_url, body, title, subtitle) ==
    IF TruthyText(title) /\ TruthyText(subtitle)
    THEN self_base_url \o <<"/">> \o quote(Val(title)) \o <<"/">>
             \o quote(Val(subtitle)) \o <<"/">> \o quote(body)
    ELSE IF TruthyText(title)
    THEN self_base_url \o <<"/">> \o quote(Val(title)) \o <<"/">> \o quote(body)
    ELSE self_base_url \o <<"/">> \o quote(body)

----------------------------------------------------------------------------
(* send *)

EmptyBody == <<"Notification body cannot be empty">>

InvalidLevel ==
    <<"Invalid level value. Must be one of: active, timeSensitive, passive, critical">>

\* The validation of send with the level check left out.
send_validate_no_level(body, level) ==
    IF body = <<>> THEN Some(BarkClientException(EmptyBody)) ELSE None

\* The validation of send: None when it passes, else the exception raised.
send_validate(body, level) ==
    IF body = <<>>
    THEN Some(BarkClientException(EmptyBody))
    ELSE IF TruthyStr(level) /\ Val(level) \notin LEVELS
    THEN Some(BarkClientException(InvalidLevel))
    ELSE None

\* The params dict of send.
send_params(a) ==
    [k \in {k \in {"url", "group", "icon", "sound", "copy", "ciphertext", "level"} :
                TruthyStr(a[k])}
           \cup (IF TruthyBool(a.call) THEN {"call"} ELSE {})
           \cup (IF a.is_archive # None THEN {"isArchive"} ELSE {})
     |-> CASE k = "call" -> IF TruthyBool(a.call) THEN 1 ELSE 0
           [] k = "isArchive" -> IF TruthyBool(a.is_archive) THEN 1 ELSE 0
           [] OTHER -> Val(a[k])]

\* requests.get called twice when the first call raises.
send_request_retry(env) ==
    IF env.kind = "raise"
    THEN [outcome |-> BarkNetworkException(<<"Network error: ", env.msg>>),
          handled |-> FALSE, sent |-> 2]
    ELSE [outcome |-> _handle_response(env), handled |-> TRUE, sent |-> 1]

\* requests.get without the RequestException handler.
send_request_unhandled(env) ==
    IF env.kind = "raise"
    THEN [outcome |-> Raise(env.exc, <<env.msg>>, None, None),
          handled |-> FALSE, sent |-> 1]
    ELSE [outcome |-> _handle_response(env), handled |-> TRUE, sent |-> 1]

\* The request of send and the handling of its response.  env is what
\* requests.get does: it raises, or returns a response (status_code and text).
send_request(env) ==
    IF env.kind = "raise"
    THEN [outcome |-> BarkNetworkException(<<"Network error: ", env.msg>>),
          handled |-> FALSE, sent |-> 1]
    ELSE [outcome |-> _handle_response(env), handled |-> TRUE, sent |-> 1]

\* One invocation of send on a client whose base_url is self_base_url.
send_result(self_base_url, a, env) ==
    LET v == send_validate(a.body, a.level) IN
    IF v # None
    THEN [outcome |-> Val(v), request |-> None, env |-> None,
          handled |-> FALSE, sent |-> 0, validated |-> FALSE]
    ELSE LET endpoint == _build_endpoint(self_base_url, a.body, a.title, a.subtitle)
             params == send_params(a)
             r == send_request(env)
         IN  [outcome |-> IF r.outcome.kind = "raise"
                             /\ r.outcome.exc \in ValueOrTypeErrors
                          THEN BarkClientException(
                                   <<"Invalid parameter: ">> \o r.outcome.message)
                          ELSE r.outcome,
              request |-> Some([method |-> "GET", url |-> endpoint,
                                params |-> params, timeout |-> TIMEOUT]),
              env |-> Some(env),
              handled |-> r.handled, sent |-> r.sent, validated |-> TRUE]

send(a, env) ==
    LET r == send_result(base_url, a, env) IN
    /\ calls' = calls + 1
    /\ validated' = validated + (IF r.validated THEN 1 ELSE 0)
    /\ nrequests' = nrequests + r.sent
    /\ last' = [method |-> "send", args |-> a, outcome |-> r.outcome,
                request |-> r.request, env |-> r.env,
                handled |-> r.handled, sent |-> r.sent, passed |-> r.validated]
    /\ UNCHANGED <<key, server_url, base_url, ctor>>

----------------------------------------------------------------------------
(* send_post *)

\* The validation of send_post: None when it passes, else the exception raised.
send_post_validate(body, kwargs) ==
    IF body = <<>>
    THEN Some(BarkClientException(EmptyBody))
    ELSE IF "level" \in DOMAIN kwargs /\ kwargs["level"] \notin {Some(l) : l \in LEVELS}
    THEN Some(BarkClientException(InvalidLevel))
    ELSE None

\* The data dict of send_post.  Its values are Python values, which may be
\* None: each is held as an Optional.
send_post_data(a) ==
    [k \in {"body"}
           \cup (IF TruthyText(a.title) THEN {"title"} ELSE {})
           \cup (IF TruthyText(a.subtitle) THEN {"subtitle"} ELSE {})
           \cup DOMAIN a.kwargs
     |-> IF k \in DOMAIN a.kwargs THEN a.kwargs[k]
         ELSE CASE k = "body" -> Some(a.body)
                [] k = "title" -> a.title
                [] k = "subtitle" -> a.subtitle]

\* The request of send_post and the handling of its response.
send_post_request(env) ==
    IF env.kind = "raise"
    THEN [outcome |-> BarkNetworkException(<<"Network error: ", env.msg>>),
          handled |-> FALSE, sent |-> 1]
    ELSE [outcome |-> _handle_response(env), handled |-> TRUE, sent |-> 1]

\* One invocation of send_post on a client whose base_url is self_base_url.
send_post_result(self_base_url, a, env) ==
    LET v == send_post_validate(a.body, a.kwargs) IN
    IF v # None
    THEN [outcome |-> Val(v), request |-> None, env |-> None,
          handled |-> FALSE, sent |-> 0, validated |-> FALSE]
    ELSE LET data == send_post_data(a)
             r == send_post_request(env)
         IN  [outcome |-> IF r.outcome.kind = "raise"
                             /\ r.outcome.exc \in ValueOrTypeErrors
                          THEN BarkClientException(
                                   <<"Invalid parameter: ">> \o r.outcome.message)
                          ELSE r.outcome,
              request |-> Some([method |-> "POST", url |-> self_base_url,
                                json |-> data, timeout |-> TIMEOUT]),
              env |-> Some(env),
              handled |-> r.handled, sent |-> r.sent, validated |-> TRUE]

send_post(a, env) ==
    LET r == send_post_result(base_url, a, env) IN
    /\ calls' = calls + 1
    /\ validated' = validated + (IF r.validated THEN 1 ELSE 0)
    /\ nrequests' = nrequests + r.sent
    /\ last' = [method |-> "send_post", args |-> a, outcome |-> r.outcome,
                request |-> r.request, env |-> r.env,
                handled |-> r.handled, sent |-> r.sent, passed |-> r.validated]
    /\ UNCHANGED <<key, server_url, base_url, ctor>>

----------------------------------------------------------------------------
(* Construction *)

Keys == {<<"K">>}

CUSTOM_SERVER == <<"h", "t", "t", "p", ":", "/", "/", "b">>

ServerArgs == {None, Some(<<>>), Some(CUSTOM_SERVER)}

\* self.server_url, from the constructor's argument
server_url_of(arg) == IF TruthyText(arg) THEN Val(arg) ELSE DEFAULT_SERVER

\* self.base_url
base_url_of(server, k) == server \o <<"/">> \o k

\* The state after BarkNotification(key, server_url) returned.
Init ==
    /\ ctor \in [key : Keys, server_url : ServerArgs]
    /\ key = ctor.key
    /\ server_url = server_url_of(ctor.server_url)
    /\ base_url = base_url_of(server_url, key)
    /\ calls = 0
    /\ validated = 0
    /\ nrequests = 0
    /\ last = [method |-> "none"]

\* The state after BarkNotification(key) returned.
InitDefault == Init /\ ctor.server_url = None

----------------------------------------------------------------------------
(* The arguments the callers pass *)

SendArgs(B, T, S, U, O, C, L, I) ==
    [body : B, title : T, subtitle : S, url : U, group : O, icon : O, sound : O,
     call : C, level : L, is_archive : I, copy : O, ciphertext : O]

KwNames ==
    {"url", "group", "icon", "sound", "call", "level", "is_archive", "copy",
     "ciphertext"}

\* A keyword argument that is not passed, and one passed with value v.
Absent == <<FALSE, None>>
Passed(v) == <<TRUE, v>>

\* The kwargs dict of the keyword arguments e passes.
MkKwargs(e) == [k \in {n \in KwNames : e[n][1]} |-> e[k][2]]

SendPostArgs(B, T, S, U, O, C, L, I) ==
    [body : B, title : T, subtitle : S,
     kwargs : {MkKwargs(e) :
                 e \in [url : U, group : O, icon : O, sound : O, call : C,
                        level : L, is_archive : I, copy : O, ciphertext : O]}]

OptBools == {None, Some(TRUE), Some(FALSE)}

LevelValues ==
    {None, Some(""), Some("urgent")} \cup {Some(l) : l \in LEVELS}

\* A connection failure and a successful answer.
FewEnvs ==
    {e \in Envs : \/ e.exc = "ConnectionError"
                  \/ /\ e.kind = "response"
                     /\ e.status_code = HTTP_OK
                     /\ e.text = "{\"code\":200,\"message\":\"ok\"}"}

----------------------------------------------------------------------------
(* Spec: any sequence of at most MaxCalls invocations on one client, with   *)
(* every behaviour of the environment.                                      *)

Send ==
    /\ calls < MaxCalls
    /\ \E a \in SendArgs({<<>>, <<"E">>}, {None, Some(<<"A">>)}, {None}, {None},
                         {None}, {None}, {None, Some("active"), Some("urgent")},
                         {None}),
          env \in Envs :
            send(a, env)

SendPost ==
    /\ calls < MaxCalls
    /\ \E a \in SendPostArgs({<<>>, <<"E">>}, {None, Some(<<"A">>)}, {None},
                             {Absent}, {Absent}, {Absent},
                             {Absent, Passed(Some("active")), Passed(Some("urgent"))},
                             {Absent}),
          env \in Envs :
            send_post(a, env)

Next == Send \/ SendPost

Spec == Init /\ [][Next]_vars

----------------------------------------------------------------------------
(* SpecArgs: one invocation on a fresh client, with every combination of    *)
(* the arguments.                                                           *)

SendAnyArgs ==
    /\ calls = 0
    /\ \E a \in SendArgs({<<>>, <<"E">>}, {None, Some(<<"A">>)},
                         {None, Some(<<"A">>)}, {None, Some(""), Some("u")},
                         {None, Some("x")}, OptBools, LevelValues, OptBools),
          env \in FewEnvs :
            send(a, env)

SendPostAnyArgs ==
    /\ calls = 0
    /\ \E a \in SendPostArgs({<<>>, <<"E">>}, {None, Some(<<"A">>)},
                             {None, Some(<<"A">>)},
                             {Absent, Passed(Some("")), Passed(Some("u"))},
                             {Absent, Passed(Some("x"))},
                             {Absent, Passed(Some(TRUE)), Passed(Some(FALSE))},
                             {Absent} \cup {Passed(l) : l \in LevelValues},
                             {Absent, Passed(Some(TRUE)), Passed(Some(FALSE))}),
          env \in FewEnvs :
            send_post(a, env)

NextArgs == SendAnyArgs \/ SendPostAnyArgs

SpecArgs == InitDefault /\ [][NextArgs]_vars

----------------------------------------------------------------------------
(* SpecEndpoint: one invocation of send on a fresh client, with every       *)
(* title, subtitle and body of EndpointTexts.                               *)

\* Every text of at most MaxLen characters, and three longer ones.
EndpointTexts == Texts \cup {<<"A", " ", "B">>, <<"A", "/", "B">>, <<"E">>}

SendAnyText ==
    /\ calls = 0
    /\ \E a \in SendArgs(EndpointTexts, {None} \cup {Some(t) : t \in EndpointTexts},
                         {None} \cup {Some(t) : t \in EndpointTexts}, {None},
                         {None}, {None}, {None}, {None}),
          env \in FewEnvs :
            send(a, env)

NextEndpoint == SendAnyText

SpecEndpoint == InitDefault /\ [][NextEndpoint]_vars

----------------------------------------------------------------------------
(* Properties *)

Called == last.method # "none"

Requested == Called /\ last.request # None

RaisedClass(exc) == Called /\ last.outcome.kind = "raise" /\ last.outcome.exc = exc

\* The part of the request's URL after self.base_url.
PathSuffix == SubSeq(Val(last.request).url, Len(base_url) + 1,
                     Len(Val(last.request).url))

RECURSIVE SlashCount(_)
SlashCount(s) ==
    IF s = <<>> THEN 0
    ELSE (IF Head(s) = "/" THEN 1 ELSE 0) + SlashCount(Tail(s))

\* The fields send puts in the path, in the order of the path.
FieldsUsed(a) ==
    IF TruthyText(a.title) /\ TruthyText(a.subtitle)
    THEN <<Val(a.title), Val(a.subtitle), a.body>>
    ELSE IF TruthyText(a.title)
    THEN <<Val(a.title), a.body>>
    ELSE <<a.body>>

RECURSIVE JoinPath(_)
JoinPath(segments) ==
    IF segments = <<>> THEN <<>>
    ELSE <<"/">> \o quote(Head(segments)) \o JoinPath(Tail(segments))

\* C1: in every request of send, the path appended to the base address holds
\* exactly one "/" per field used: no "/" of a title, subtitle or body is left
\* unescaped.
C1_SlashEscaped ==
    (Requested /\ last.method = "send")
        => SlashCount(PathSuffix) = Len(FieldsUsed(last.args))

\* The level send_post was called with, as send takes it (None when not passed).
PostLevel ==
    IF "level" \in DOMAIN last.args.kwargs THEN last.args.kwargs["level"] ELSE None

\* C2: send_post raises BarkClientException exactly when send's validation
\* rejects the same body and level.
C2_SameValidation ==
    (Called /\ last.method = "send_post")
        => ((~last.passed /\ RaisedClass("BarkClientException"))
                <=> send_validate(last.args.body, PostLevel) # None)

\* C3: in a request of send, call=True is sent as call=1 and is_archive=True as
\* isArchive=1, and call=False and is_archive=False are either both left out or
\* both sent as 0.
C3_BooleansConsistent ==
    (Requested /\ last.method = "send") =>
        LET params == Val(last.request).params
            a == last.args
        IN  /\ a.call = Some(TRUE) => ("call" \in DOMAIN params /\ params["call"] = 1)
            /\ a.is_archive = Some(TRUE)
                   => ("isArchive" \in DOMAIN params /\ params["isArchive"] = 1)
            /\ (a.call = Some(FALSE) /\ a.is_archive = Some(FALSE))
                   => \/ ("call" \notin DOMAIN params /\ "isArchive" \notin DOMAIN params)
                      \/ /\ "call" \in DOMAIN params
                         /\ "isArchive" \in DOMAIN params
                         /\ params["call"] = 0
                         /\ params["isArchive"] = 0

\* The 'code' field of a parsed response: None when there is none.
CodeField(j) ==
    IF j.t = "object" /\ "code" \in DOMAIN j.fields THEN j.fields["code"] ELSE PyNone

\* The 'message' field of a parsed response, or the fallback.
MessageField(j) ==
    IF j.t = "object" /\ "message" \in DOMAIN j.fields
    THEN j.fields["message"].s
    ELSE "Unknown error"

ServerError(status) ==
    /\ RaisedClass("BarkServerException")
    /\ last.outcome.status_code = Some(status)

\* C4: every response is classified: a status other than 200 is a ServerError
\* with that status; 200 with a text that is not JSON is a ServerError with the
\* status and the raw text; 200 with JSON whose code is not 200 is a ServerError
\* with the status, the message field (or the fallback) and the parsed body; 200
\* with code 200 returns the parsed body.
C4_ResponseClassified ==
    (Requested /\ Val(last.env).kind = "response") =>
        LET response == Val(last.env)
            \* the text as JSON, whatever the interpreter's limits
            parsed == json_loads(response.text, FALSE)
        IN  IF response.status_code # HTTP_OK
            THEN ServerError(response.status_code)
            ELSE IF ~parsed.ok
            THEN /\ ServerError(response.status_code)
                 /\ last.outcome.message[2] = response.text
            ELSE IF CodeField(parsed.value) # JNumber("200")
            THEN /\ ServerError(response.status_code)
                 /\ last.outcome.message[2] = MessageField(parsed.value)
                 /\ last.outcome.response = Some(parsed.value)
            ELSE last.outcome = Return(parsed.value)

\* C5: an invocation that ends with BarkClientException has issued no request.
C5_ClientErrorBeforeNetwork ==
    RaisedClass("BarkClientException")
        => (last.sent = 0 /\ last.request = None /\ ~last.handled)

C7_OneRequestPerCall ==
    /\ nrequests = validated
    /\ Called => last.sent = (IF last.passed THEN 1 ELSE 0)
    /\ key = ctor.key
    /\ server_url = server_url_of(ctor.server_url)
    /\ base_url = base_url_of(server_url_of(ctor.server_url), ctor.key)

\* Two invocations, both past validation, the second with a transport failure.
C7_Witness ==
    /\ calls = 2
    /\ nrequests = 2
    /\ Requested
    /\ Val(last.env).kind = "raise"

\* C8: when the transport raises, the invocation ends with
\* BarkNetworkException whose message holds the transport's message, and the
\* response handling has not run.
C8_TransportFailure ==
    (Requested /\ Val(last.env).kind = "raise") =>
        /\ last.outcome = BarkNetworkException(<<"Network error: ", Val(last.env).msg>>)
        /\ ~last.handled

\* send_post met a transport error that is also a ValueError.
C8_Witness ==
    /\ Requested
    /\ last.method = "send_post"
    /\ Val(last.env).exc = "InvalidURL"
    /\ RaisedClass("BarkNetworkException")

\* C9: the URL send requests is the base address (server_url, "/", key)
\* followed by the quoted title, subtitle and body, by the quoted title and body,
\* or by the quoted body alone, in that order.
C9_SegmentOrder ==
    (Requested /\ last.method = "send") =>
        /\ base_url = server_url \o <<"/">> \o key
        /\ Val(last.request).url = base_url \o JoinPath(FieldsUsed(last.args))

\* send(title="A B", subtitle="A", body="E") requested .../A%20B/A/E.
C9_Witness ==
    /\ Requested
    /\ last.method = "send"
    /\ last.args.title = Some(<<"A", " ", "B">>)
    /\ last.args.subtitle = Some(<<"A">>)
    /\ last.args.body = <<"E">>
    /\ PathSuffix = <<"/", "A", "%", "2", "0", "B", "/", "A", "/", "E">>

\* C10: every invocation returns or raises one of BarkClientException,
\* BarkNetworkException and BarkServerException.
C10_ClosedOutcomes ==
    Called =>
        \/ last.outcome.kind = "return"
        \/ last.outcome.exc \in
               {"BarkClientException", "BarkNetworkException", "BarkServerException"}

====
